---- MODULE Spec2Model ----
(***************************************************************************)
(* A model of the filesystem-backed cache of go-cache (file.go) and of the *)
(* helpers it uses: the path sharder, the gob envelope, the expiry         *)
(* predicate, the counter helpers, the hash emulation and the background   *)
(* sweep started by StartAndGC.                                            *)
(*                                                                         *)
(* Strings of the program (keys, path segments, texts) are sequences of    *)
(* one-character strings, so that strings.Split, strings.Contains, the     *)
(* lexical order of filepath.Walk and the decimal formatting of numbers    *)
(* are computed and not tabulated.  A path is the sequence of its segments *)
(* below rootPath; rootPath itself is the empty sequence.                  *)
(***************************************************************************)
EXTENDS Integers, Sequences, FiniteSets, TLC

VARIABLES
    files,      \* path -> bytes of the file (the gob envelope); DOMAIN = the files on disk
    dirs,       \* the directories on disk below and including rootPath
    now,        \* time.Now().Unix()
    interval,   \* FileCache.interval
    timers,     \* due times of the pending startGC calls (go c.startGC / time.AfterFunc)
    gc,         \* the sweep holding c.lock, if any: its position in filepath.Walk
    ret,        \* the last call of a caller: its arguments and what it returned
    nops,       \* number of calls made so far
    sweep,      \* history: time, nops and files when the sweep under way began
    pend        \* per caller: the call it is in the middle of, if any, and what it holds

vars == <<files, dirs, now, interval, timers, gc, ret, nops, sweep, pend>>

----------------------------------------------------------------------------
(* Bounds of the model. *)

MaxTime == 2
MaxOps == 3

----------------------------------------------------------------------------
(* Strings. *)

\* The characters of the model in byte order.
Alphabet ==
    <<"0","1","2","3","4","5","6","7","8","9","_",
      "a","b","c","d","e","f","g","h","i","j","k","l","m",
      "n","o","p","q","r","s","t","u","v","w","x","y","z">>

Byte(c) == CHOOSE i \in 1..Len(Alphabet) : Alphabet[i] = c

\* s < t in the order of Go's string comparison (sort.Strings in readDirNames).
RECURSIVE StrLess(_, _)
StrLess(s, t) ==
    IF t = <<>> THEN FALSE
    ELSE IF s = <<>> THEN TRUE
    ELSE IF Head(s) = Head(t) THEN StrLess(Tail(s), Tail(t))
    ELSE Byte(Head(s)) < Byte(Head(t))

\* strings.Contains(s, "_")
Contains(s, c) == \E i \in 1..Len(s) : s[i] = c

\* strings.Split(s, "_"): the segments between the separators, empty ones kept.
RECURSIVE SplitFrom(_, _, _)
SplitFrom(s, c, cur) ==
    IF s = <<>> THEN <<cur>>
    ELSE IF Head(s) = c THEN <<cur>> \o SplitFrom(Tail(s), c, <<>>)
    ELSE SplitFrom(Tail(s), c, Append(cur, Head(s)))

Split(s, c) == SplitFrom(s, c, <<>>)

\* strconv.FormatInt(n, 10) for n >= 0.
RECURSIVE Digits(_)
Digits(n) ==
    IF n < 10 THEN <<Alphabet[n + 1]>>
    ELSE Append(Digits(n \div 10), Alphabet[(n % 10) + 1])

----------------------------------------------------------------------------
(* Path Sharder. *)

\* hex.EncodeToString(md5.Sum(key)) for the keys of the model.
MD5Hex(key) ==
    CASE key = <<"k">>
        -> <<"8","c","e","4","b","1","6","b","2","2","b","5","8","8","9","4","a","a","8","6","c","4","2","1","e","8","7","5","9","d","f","3">>
      [] key = <<"e">>
        -> <<"e","1","6","7","1","7","9","7","c","5","2","e","1","5","f","7","6","3","3","8","0","b","4","5","e","8","4","1","e","c","3","2">>
      [] key = <<"u","_","1">>
        -> <<"d","3","3","d","e","f","0","e","b","4","9","3","3","f","9","1","b","8","8","e","b","4","e","7","8","4","a","d","a","f","0","5">>
      [] key = <<"u","_","2">>
        -> <<"8","9","a","e","7","8","b","e","8","8","0","a","0","0","4","a","a","5","4","0","4","a","c","8","7","4","a","0","1","b","f","f">>
      [] key = <<"v","_","1">>
        -> <<"8","4","f","c","8","2","5","e","5","c","5","d","6","9","6","9","2","2","1","7","5","4","0","5","9","d","e","4","a","8","0","4">>
      [] key = <<"_","x">>
        -> <<"d","9","3","f","2","a","6","7","c","a","6","3","f","3","c","d","3","c","9","e","5","2","4","b","3","7","5","c","3","f","b","8">>
      [] key = <<"8","_","1">>
        -> <<"5","5","3","c","c","4","6","7","5","4","a","4","6","f","d","2","d","6","7","8","b","9","4","b","b","c","f","4","1","2","1","d">>
      [] key = <<>>
        -> <<"d","4","1","d","8","c","d","9","8","f","0","0","b","2","0","4","e","9","8","0","0","9","9","8","e","c","f","8","4","2","7","e">>
      [] key = <<"u">>
        -> <<"7","b","7","7","4","e","f","f","e","4","a","3","4","9","c","6","d","d","8","2","a","d","4","f","4","f","2","1","d","3","4","c">>
      [] key = <<"v">>
        -> <<"9","e","3","6","6","9","d","1","9","b","6","7","5","b","d","5","7","0","5","8","f","d","4","6","6","4","2","0","5","d","2","a">>
      [] key = <<"8">>
        -> <<"c","9","f","0","f","8","9","5","f","b","9","8","a","b","9","1","5","9","f","5","1","f","d","0","2","9","7","e","2","3","6","d">>

\* filepath.Join / the kernel's path resolution: empty segments vanish.
RECURSIVE Join(_)
Join(segs) ==
    IF segs = <<>> THEN <<>>
    ELSE IF Head(segs) = <<>> THEN Join(Tail(segs))
    ELSE <<Head(segs)>> \o Join(Tail(segs))

\* FileCache.filepath
filepath(key) ==
    LET keys == Split(key, "_")
        path == IF Len(keys) >= 2 THEN <<keys[1]>> ELSE <<>>
        hash == MD5Hex(key)
    IN  Join(path \o <<<<hash[1]>>, <<hash[2]>>, hash>>)

----------------------------------------------------------------------------
(* Values.  A Go value is [type, n, s, m]: its dynamic type, and its       *)
(* content in n (integers and bools; floats count halves, so 3 is 1.5), in *)
(* s (strings) or in m (the members <<name, value>> of a map or of a JSON  *)
(* object; the JSON document <<"", doc>> held by a []byte).  A struct, or   *)
(* a pointer to one, holds in s its fields in declaration order.           *)

V(type, n, s, m) == [s |-> s, n |-> n, type |-> type, m |-> m]

Nil == V("nil", 0, <<>>, {})
IntV(type, n) == V(type, n, <<>>, {})
StrV(s) == V("string", 0, s, {})
BoolV(b) == V("bool", IF b THEN 1 ELSE 0, <<>>, {})
FloatV(type, halves) == V(type, halves, <<>>, {})
MapV(m) == V("map", 0, <<>>, m)
BytesV(doc) == V("[]byte", 0, <<>>, {<<"", doc>>})
StructV(fields) == V("struct", 0, fields, {})
PtrV(fields) == V("ptr", 0, fields, {})

\* reflect.StructField and reflect.Value of a field: whether it is embedded
\* (Anonymous), the tag it resolves to (the cache tag, else the tag
\* GetGromTag finds in the gorm one, "" for none), its value, and the fields
\* of an embedded struct.
Field(tag, val) == [fields |-> <<>>, tag |-> tag, val |-> val, Anonymous |-> FALSE]
Embedded(fields) == [fields |-> fields, tag |-> "", val |-> Nil, Anonymous |-> TRUE]

SignedTypes == {"int", "int8", "int16", "int32", "int64"}
UnsignedTypes == {"uint", "uint8", "uint16", "uint32", "uint64"}
FloatTypes == {"float32", "float64"}

\* isNotNumber
isNotNumber(val) ==
    val.type \notin SignedTypes \cup UnsignedTypes \cup FloatTypes \cup {"string", "bool"}

ErrNotInt == "item value is not int-type"
ErrLessThan0 == "item value is less than 0"

\* An Incr that takes every value for a counter: what the type error of
\* Incr guards against.
IncrAny(val) ==
    IF val.type \in {"int", "int32", "int64", "uint", "uint32", "uint64"}
    THEN <<IntV(val.type, val.n + 1), "nil">>
    ELSE <<val, "nil">>

\* Incr: <<value, error>>.  The integers of the model stay far from the
\* limits of their types, where Go's addition wraps around.
Incr(val) ==
    IF val.type \in {"int", "int32", "int64", "uint", "uint32", "uint64"}
    THEN <<IntV(val.type, val.n + 1), "nil">>
    ELSE <<val, ErrNotInt>>

\* Decr: <<value, error>>
Decr(val) ==
    IF val.type \in {"int", "int32", "int64"}
    THEN <<IntV(val.type, val.n - 1), "nil">>
    ELSE IF val.type \in {"uint", "uint32", "uint64"}
    THEN IF val.n > 0
         THEN <<IntV(val.type, val.n - 1), "nil">>
         ELSE <<val, ErrLessThan0>>
    ELSE <<val, ErrNotInt>>

\* strconv.FormatInt / FormatUint in base 10
FormatInt(n) == IF n < 0 THEN <<"-">> \o Digits(0 - n) ELSE Digits(n)

\* strconv.FormatFloat(f, 'f', -1, 64) and %v of a float, for the floats of
\* the model (non-negative multiples of 0.5 below 1e21, which both print in
\* plain decimal notation with the fewest digits).
FormatFloat(halves) ==
    IF halves % 2 = 0 THEN Digits(halves \div 2)
    ELSE Digits(halves \div 2) \o <<".", "5">>

FormatBool(n) == IF n = 1 THEN <<"t","r","u","e">> ELSE <<"f","a","l","s","e">>

\* fmt.Sprintf("%v", val) of a scalar
Sprint(val) ==
    CASE val.type \in SignedTypes \cup UnsignedTypes -> FormatInt(val.n)
      [] val.type \in FloatTypes -> FormatFloat(val.n)
      [] val.type = "bool" -> FormatBool(val.n)
      [] val.type = "string" -> val.s
      [] OTHER -> <<"%","v">>

\* ToStr
ToStr(val) ==
    CASE val.type = "bool" -> FormatBool(val.n)
      [] val.type \in FloatTypes -> FormatFloat(val.n)
      [] val.type \in SignedTypes \cup UnsignedTypes -> FormatInt(val.n)
      [] val.type = "string" -> val.s
      [] OTHER -> Sprint(val)

\* json.Marshal: the JSON document of a value.  Numbers become JSON numbers
\* (kept in halves), strings JSON strings, a map an object of its members'
\* documents, a nil value or nil map the document null.
RECURSIVE JsonDoc(_)
JsonDoc(val) ==
    CASE val.type \in SignedTypes \cup UnsignedTypes -> V("number", 2 * val.n, <<>>, {})
      [] val.type \in FloatTypes -> V("number", val.n, <<>>, {})
      [] val.type = "string" -> V("jstring", 0, val.s, {})
      [] val.type = "bool" -> V("jbool", val.n, <<>>, {})
      [] val.type = "map" -> V("object", 0, <<>>, {<<e[1], JsonDoc(e[2])>> : e \in val.m})
      [] OTHER -> V("null", 0, <<>>, {})

jsonMarshal(val) == BytesV(JsonDoc(val))

\* json.Unmarshal into an empty interface: objects become
\* map[string]interface{}, numbers float64, null the nil interface.
RECURSIVE FromDoc(_)
FromDoc(doc) ==
    CASE doc.type = "number" -> FloatV("float64", doc.n)
      [] doc.type = "jstring" -> StrV(doc.s)
      [] doc.type = "jbool" -> V("bool", doc.n, <<>>, {})
      [] doc.type = "object" -> MapV({<<e[1], FromDoc(e[2])>> : e \in doc.m})
      [] OTHER -> Nil

jsonUnmarshal(bytes) == FromDoc((CHOOSE e \in bytes.m : TRUE)[2])

----------------------------------------------------------------------------
(* Entry Envelope. *)

Item(val, created, expire) == [Val |-> val, Created |-> created, Expire |-> expire]

\* new(Item)
ZeroItem == Item(Nil, 0, 0)

\* An expiry test that lets an entry live through the second its ttl ends.
hasExpiredLate(item, t) ==
    item.Expire > 0 /\ (t - item.Created) > item.Expire

\* Item.hasExpired at time t
hasExpired(item, t) ==
    item.Expire > 0 /\ (t - item.Created) >= item.Expire

\* The bytes of a file: none (an empty read), or a gob stream, which names
\* the fields it carries; gob does not send a field holding its zero value.
NoData == [item |-> ZeroItem, sent |-> {}, ok |-> FALSE]

\* EncodeGob
EncodeGob(item) ==
    [item |-> item,
     sent |-> (IF item.Val # Nil THEN {"Val"} ELSE {})
              \cup (IF item.Created # 0 THEN {"Created"} ELSE {})
              \cup (IF item.Expire # 0 THEN {"Expire"} ELSE {}),
     ok |-> TRUE]

\* DecodeGob into out: <<item, error>>
DecodeGob(data, out) ==
    IF ~data.ok THEN <<out, "EOF">>
    ELSE <<Item(IF "Val" \in data.sent THEN data.item.Val ELSE out.Val,
                IF "Created" \in data.sent THEN data.item.Created ELSE out.Created,
                IF "Expire" \in data.sent THEN data.item.Expire ELSE out.Expire), "nil">>

----------------------------------------------------------------------------
(* The filesystem below rootPath.  A store S is [files, dirs]. *)

RootPath == <<>>

IsPrefix(p, q) == Len(p) <= Len(q) /\ SubSeq(q, 1, Len(p)) = p

\* filepath.Dir
Dir(p) == SubSeq(p, 1, Len(p) - 1)

\* os.MkdirAll
MkdirAll(ds, d) == ds \cup {SubSeq(d, 1, i) : i \in 0..Len(d)}

\* os.WriteFile
WriteFile(fs, p, data) ==
    [q \in DOMAIN fs \cup {p} |-> IF q = p THEN data ELSE fs[q]]

Without(fs, gone) == [q \in DOMAIN fs \ gone |-> fs[q]]

\* os.ReadFile: <<data, error>>
ReadFile(fs, p) ==
    IF p \in DOMAIN fs THEN <<fs[p], "nil">> ELSE <<NoData, "not exist">>

\* os.Remove of a file or of an empty directory: [files, dirs, err]
Remove(S, p) ==
    IF p \in DOMAIN S.files
    THEN [files |-> Without(S.files, {p}), dirs |-> S.dirs, err |-> "nil"]
    ELSE IF p \in S.dirs
    THEN IF \E q \in DOMAIN S.files \cup S.dirs : q # p /\ IsPrefix(p, q)
         THEN [files |-> S.files, dirs |-> S.dirs, err |-> "not empty"]
         ELSE [files |-> S.files, dirs |-> S.dirs \ {p}, err |-> "nil"]
    ELSE [files |-> S.files, dirs |-> S.dirs, err |-> "not exist"]

\* os.RemoveAll: the path and everything below it; no error when it is absent
RemoveAll(S, p) ==
    [files |-> Without(S.files, {q \in DOMAIN S.files : IsPrefix(p, q)}),
     dirs |-> {q \in S.dirs : ~IsPrefix(p, q)},
     err |-> "nil"]

\* IsExist
IsExist(S, p) == p \in DOMAIN S.files \/ p \in S.dirs

----------------------------------------------------------------------------
(* File Store: each method as a function of the store it finds, giving the *)
(* store it leaves and what it returns.                                    *)

NilMap == V("nilmap", 0, <<>>, {})

\* F(e), with e evaluated once
With(e, F(_)) == CHOOSE x \in {F(v) : v \in {e}} : TRUE

\* FileCache.Set: [files, dirs, err]
FileCacheSet(S, key, val, expire) ==
    LET filename == filepath(key)
        stored == IF isNotNumber(val) THEN jsonMarshal(val) ELSE val
        data == EncodeGob(Item(stored, now, expire))
    IN  [files |-> WriteFile(S.files, filename, data),
         dirs |-> MkdirAll(S.dirs, Dir(filename)),
         err |-> "nil"]

\* FileCache.read: <<item, error>>
read(S, key) ==
    LET r == ReadFile(S.files, filepath(key))
    IN  IF r[2] # "nil" THEN <<ZeroItem, r[2]>>
        ELSE DecodeGob(r[1], ZeroItem)

\* A Get that reports an expired entry and leaves its file on disk.
FileCacheGetKeep(S, key) ==
    With(read(S, key), LAMBDA r :
        IF r[2] # "nil"
        THEN [files |-> S.files, dirs |-> S.dirs, val |-> Nil, err |-> r[2]]
        ELSE IF hasExpired(r[1], now)
        THEN [files |-> S.files, dirs |-> S.dirs, val |-> Nil, err |-> r[2]]
        ELSE IF isNotNumber(r[1].Val)
        THEN IF r[1].Val.type # "[]byte"
             THEN [files |-> S.files, dirs |-> S.dirs, val |-> Nil, err |-> "panic"]
             ELSE [files |-> S.files, dirs |-> S.dirs,
                   val |-> jsonUnmarshal(r[1].Val), err |-> "nil"]
        ELSE [files |-> S.files, dirs |-> S.dirs,
              val |-> StrV(Sprint(r[1].Val)), err |-> "nil"])

\* FileCache.Get: [files, dirs, val, err]
FileCacheGet(S, key) ==
    With(read(S, key), LAMBDA r :
        IF r[2] # "nil"
        THEN [files |-> S.files, dirs |-> S.dirs, val |-> Nil, err |-> r[2]]
        ELSE IF hasExpired(r[1], now)
        THEN With(Remove(S, filepath(key)), LAMBDA rm :
                 [files |-> rm.files, dirs |-> rm.dirs, val |-> Nil, err |-> r[2]])
        ELSE IF isNotNumber(r[1].Val)
        THEN IF r[1].Val.type # "[]byte"
             THEN [files |-> S.files, dirs |-> S.dirs, val |-> Nil, err |-> "panic"]
             ELSE [files |-> S.files, dirs |-> S.dirs,
                   val |-> jsonUnmarshal(r[1].Val), err |-> "nil"]
        ELSE [files |-> S.files, dirs |-> S.dirs,
              val |-> StrV(Sprint(r[1].Val)), err |-> "nil"])

\* FileCache.Del: [files, dirs, err]
FileCacheDel(S, key) == Remove(S, filepath(key))

\* An Incr that writes the counter back with no ttl.
FileCacheIncrNoTTL(S, key) ==
    With(read(S, key), LAMBDA r :
        IF r[2] # "nil" THEN [files |-> S.files, dirs |-> S.dirs, err |-> r[2]]
        ELSE With(Incr(r[1].Val), LAMBDA v :
                 IF v[2] # "nil" THEN [files |-> S.files, dirs |-> S.dirs, err |-> v[2]]
                 ELSE FileCacheSet(S, key, v[1], 0)))

\* FileCache.Incr from the item it has read: Incr of the value and, with no
\* error, Set with the lifetime read.
IncrWriteBack(S, key, item) ==
    With(Incr(item.Val), LAMBDA v :
        IF v[2] # "nil" THEN [files |-> S.files, dirs |-> S.dirs, err |-> v[2]]
        ELSE FileCacheSet(S, key, v[1], item.Expire))

\* FileCache.Incr: [files, dirs, err]
FileCacheIncr(S, key) ==
    With(read(S, key), LAMBDA r :
        IF r[2] # "nil" THEN [files |-> S.files, dirs |-> S.dirs, err |-> r[2]]
        ELSE IncrWriteBack(S, key, r[1]))

\* FileCache.Decr: [files, dirs, err]
FileCacheDecr(S, key) ==
    With(read(S, key), LAMBDA r :
        IF r[2] # "nil" THEN [files |-> S.files, dirs |-> S.dirs, err |-> r[2]]
        ELSE With(Decr(r[1].Val), LAMBDA v :
                 IF v[2] # "nil" THEN [files |-> S.files, dirs |-> S.dirs, err |-> v[2]]
                 ELSE FileCacheSet(S, key, v[1], r[1].Expire)))

\* An Exists that looks into the file: true for an entry that has not expired.
FileCacheExistsLive(S, key) ==
    IsExist(S, filepath(key)) /\ ~hasExpired(read(S, key)[1], now)

\* FileCache.Exists
FileCacheExists(S, key) == IsExist(S, filepath(key))

\* FileCache.Flush: [files, dirs, err]
FileCacheFlush(S) == RemoveAll(S, Join(RootPath))

\* A Clear with the two cases the other way round: the bucket's subtree
\* for a key with the delimiter, the single file for a key without.
FileCacheClearBucket(S, key) ==
    IF Contains(key, "_")
    THEN RemoveAll(S, Join(RootPath \o <<Split(key, "_")[1]>>))
    ELSE Remove(S, filepath(key))

\* FileCache.Clear: [files, dirs, err]
FileCacheClear(S, key) ==
    IF ~Contains(key, "_")
    THEN RemoveAll(S, Join(RootPath \o <<key>>))
    ELSE Remove(S, filepath(key))

\* An Expire that keeps the entry and drops its value.
FileCacheExpireBlank(S, key, expire) ==
    IF ~FileCacheExists(S, key)
    THEN [files |-> S.files, dirs |-> S.dirs, ok |-> FALSE]
    ELSE With(FileCacheGet(S, key), LAMBDA g :
             IF g.err # "nil"
             THEN [files |-> g.files, dirs |-> g.dirs, ok |-> FALSE]
             ELSE With(FileCacheSet([files |-> g.files, dirs |-> g.dirs], key, Nil, expire),
                       LAMBDA w : [files |-> w.files, dirs |-> w.dirs, ok |-> w.err = "nil"]))

\* FileCache.Expire: [files, dirs, ok].  expire is the time.Duration given,
\* a number of nanoseconds, which int64(expire) hands to Set as it is.
FileCacheExpire(S, key, expire) ==
    IF ~FileCacheExists(S, key)
    THEN [files |-> S.files, dirs |-> S.dirs, ok |-> FALSE]
    ELSE With(FileCacheGet(S, key), LAMBDA g :
             IF g.err # "nil"
             THEN [files |-> g.files, dirs |-> g.dirs, ok |-> FALSE]
             ELSE With(FileCacheSet([files |-> g.files, dirs |-> g.dirs], key, g.val, expire),
                       LAMBDA w : [files |-> w.files, dirs |-> w.dirs, ok |-> w.err = "nil"]))

\* FileCache.HGetAll: [files, dirs, data, err]
FileCacheHGetAll(S, key) ==
    IF ~FileCacheExists(S, key)
    THEN [files |-> S.files, dirs |-> S.dirs, data |-> NilMap, err |-> "is empty"]
    ELSE With(FileCacheGet(S, key), LAMBDA g :
             IF g.err # "nil"
             THEN [files |-> g.files, dirs |-> g.dirs, data |-> NilMap,
                   err |-> IF g.err = "panic" THEN "panic" ELSE "Get failed"]
             ELSE IF g.val = Nil
             THEN [files |-> g.files, dirs |-> g.dirs, data |-> NilMap, err |-> "nil"]
             ELSE IF g.val.type # "map"
             THEN [files |-> g.files, dirs |-> g.dirs, data |-> NilMap, err |-> "panic"]
             ELSE [files |-> g.files, dirs |-> g.dirs,
                   data |-> MapV({<<e[1], StrV(ToStr(e[2]))>> : e \in g.val.m}),
                   err |-> "nil"])

\* data[k] = ToStr(v) for every member of newData
Assign(data, newData) ==
    MapV({e \in data.m : \A n \in newData.m : n[1] # e[1]}
         \cup {<<n[1], StrV(ToStr(n[2]))>> : n \in newData.m})

\* c.Set(key, data, 0) on the store a call has left, giving ok: [files, dirs, ok, err]
SetBack(T, key, data, ok) ==
    With(FileCacheSet(T, key, data, 0), LAMBDA w :
        [files |-> w.files, dirs |-> w.dirs, ok |-> ok, err |-> "nil"])

\* FileCache.HSet: [files, dirs, ok, err]; newData is nil, a
\* map[string]interface{} or a value of another kind
FileCacheHSet(S, key, newData) ==
    IF ~FileCacheExists(S, key)
    THEN [files |-> S.files, dirs |-> S.dirs, ok |-> FALSE, err |-> "nil"]
    ELSE With(FileCacheHGetAll(S, key), LAMBDA h :
             IF h.err = "panic"
             THEN [files |-> h.files, dirs |-> h.dirs, ok |-> FALSE, err |-> "panic"]
             ELSE IF h.err # "nil"
             THEN [files |-> h.files, dirs |-> h.dirs, ok |-> TRUE, err |-> "nil"]
             ELSE IF newData = Nil
             THEN SetBack(h, key, h.data, TRUE)
             ELSE IF newData.type # "map"
             THEN [files |-> h.files, dirs |-> h.dirs, ok |-> FALSE,
                   err |-> "data must be map"]
             ELSE IF h.data = NilMap
             THEN IF newData.m # {}
                  THEN [files |-> h.files, dirs |-> h.dirs, ok |-> FALSE, err |-> "panic"]
                  ELSE SetBack(h, key, NilMap, TRUE)
             ELSE SetBack(h, key, Assign(h.data, newData), TRUE))

\* FileCache.HDel: [files, dirs, err]
FileCacheHDel(S, key, field) ==
    IF ~FileCacheExists(S, key)
    THEN [files |-> S.files, dirs |-> S.dirs, err |-> "nil"]
    ELSE With(FileCacheHGetAll(S, key), LAMBDA h :
             IF h.err = "panic"
             THEN [files |-> h.files, dirs |-> h.dirs, err |-> "panic"]
             ELSE IF h.err # "nil"
             THEN [files |-> h.files, dirs |-> h.dirs, err |-> "nil"]
             ELSE FileCacheSet(h, key,
                      IF h.data = NilMap THEN NilMap
                      ELSE MapV({e \in h.data.m : e[1] # field}), 0))

\* setValue: <<tag, val, child>>, child the <<tag, val>> of the fields of an
\* embedded struct (<<>> for nil).  Of the kinds of a tagged field, the model
\* has the scalars, returned as they are, and the structs other than
\* time.Time, which fall through to the last return, where tag is the named
\* result, never assigned.
RECURSIVE setValue(_)
setValue(field) ==
    IF field.Anonymous
    THEN <<"", Nil, [i \in 1..Len(field.fields) |->
                        <<setValue(field.fields[i])[1], setValue(field.fields[i])[2]>>]>>
    ELSE IF field.tag # "" /\ field.val.type # "struct"
    THEN <<field.tag, field.val, <<>>>>
    ELSE <<"", Nil, <<>>>>

\* values[tag] = val
Put(values, tag, val) == {e \in values : e[1] # tag} \cup {<<tag, val>>}

\* The inner loop of HMSet over child[i..]
RECURSIVE PutChild(_, _, _)
PutChild(values, child, i) ==
    IF i > Len(child) THEN values
    ELSE PutChild(IF child[i][1] # "" \/ child[i][2] # Nil
                  THEN Put(values, child[i][1], child[i][2])
                  ELSE values,
                  child, i + 1)

\* The loop of HMSet over fields[i..]
RECURSIVE PutFields(_, _, _)
PutFields(values, fields, i) ==
    IF i > Len(fields) THEN values
    ELSE With(setValue(fields[i]), LAMBDA r :
             PutFields(IF r[3] # <<>> THEN PutChild(values, r[3], 1)
                       ELSE IF r[2] # StrV(<<>>) /\ r[2] # Nil THEN Put(values, r[1], r[2])
                       ELSE values,
                       fields, i + 1))

\* FileCache.HMSet: [files, dirs, err]; data is nil, a struct or a pointer
\* to a struct
FileCacheHMSet(S, key, data) ==
    IF key = <<>> \/ data = Nil
    THEN [files |-> S.files, dirs |-> S.dirs, err |-> "parameter is empty"]
    ELSE IF data.type = "ptr"
    THEN [files |-> S.files, dirs |-> S.dirs, err |-> "parsing failed"]
    ELSE IF data.type # "struct"
    THEN [files |-> S.files, dirs |-> S.dirs, err |-> "panic"]
    ELSE With(FileCacheSet(S, key, MapV(PutFields({}, data.s, 1)), 0), LAMBDA w :
             [files |-> w.files, dirs |-> w.dirs,
              err |-> IF w.err # "nil" THEN "add failed" ELSE "nil"])

----------------------------------------------------------------------------
(* Calls of a caller.  Each is the whole handler, run at time now. *)

Store == [files |-> files, dirs |-> dirs]

\* op(key, ...) returned: val is the value given (Set, HSet, HDel) or
\* returned (Get, HGetAll), n the lifetime given to Set, err the error
\* ("nil" for none, "panic" for a run-time panic), ok the boolean returned
\* (for a call returning only an error: that it is nil), root whether the
\* call found rootPath on disk.
Ret(op, key, val, n, err, ok) ==
    [n |-> n, key |-> key, val |-> val, ok |-> ok, err |-> err, op |-> op,
     root |-> RootPath \in dirs]

\* The callers, and what a caller holds: the call it is in the middle of
\* ("none" outside a call), its key, the item it has read, and the error its
\* last call returned ("" before any).
Callers == {1, 2}

NoCall == [key |-> <<>>, item |-> ZeroItem, err |-> "", op |-> "none"]

Pending == Cardinality({c \in Callers : pend[c].op # "none"})

\* A call leaves the store r (its files and dirs) and returns result(r).
Return(call, result(_)) ==
    /\ nops + Pending < MaxOps
    /\ \E r \in {call} :
           /\ files' = r.files
           /\ dirs' = r.dirs
           /\ ret' = result(r)
    /\ nops' = nops + 1
    /\ UNCHANGED <<now, interval, timers, gc, sweep, pend>>

CallSet(key, val, expire) ==
    Return(FileCacheSet(Store, key, val, expire),
           LAMBDA r : Ret("Set", key, val, expire, r.err, r.err = "nil"))

CallGet(key) ==
    Return(FileCacheGet(Store, key),
           LAMBDA r : Ret("Get", key, r.val, 0, r.err, r.err = "nil"))

CallDel(key) ==
    Return(FileCacheDel(Store, key),
           LAMBDA r : Ret("Del", key, Nil, 0, r.err, r.err = "nil"))

CallIncr(key) ==
    Return(FileCacheIncr(Store, key),
           LAMBDA r : Ret("Incr", key, Nil, 0, r.err, r.err = "nil"))

CallDecr(key) ==
    Return(FileCacheDecr(Store, key),
           LAMBDA r : Ret("Decr", key, Nil, 0, r.err, r.err = "nil"))

CallExists(key) ==
    Return(Store,
           LAMBDA r : Ret("Exists", key, Nil, 0, "nil", FileCacheExists(Store, key)))

CallFlush ==
    Return(FileCacheFlush(Store),
           LAMBDA r : Ret("Flush", <<>>, Nil, 0, r.err, r.err = "nil"))

CallClear(key) ==
    Return(FileCacheClear(Store, key),
           LAMBDA r : Ret("Clear", key, Nil, 0, r.err, r.err = "nil"))

CallExpire(key, expire) ==
    Return(FileCacheExpire(Store, key, expire),
           LAMBDA r : Ret("Expire", key, Nil, expire, "nil", r.ok))

CallHGetAll(key) ==
    Return(FileCacheHGetAll(Store, key),
           LAMBDA r : Ret("HGetAll", key, r.data, 0, r.err, r.err = "nil"))

CallHSet(key, newData) ==
    Return(FileCacheHSet(Store, key, newData),
           LAMBDA r : Ret("HSet", key, newData, 0, r.err, r.ok))

CallHDel(key, field) ==
    Return(FileCacheHDel(Store, key, field),
           LAMBDA r : Ret("HDel", key, StrV(<<field>>), 0, r.err, r.err = "nil"))

CallHMSet(key, data) ==
    Return(FileCacheHMSet(Store, key, data),
           LAMBDA r : Ret("HMSet", key, data, 0, r.err, r.err = "nil"))

----------------------------------------------------------------------------
(* FileCache.Incr as the two steps it is: the read of the entry, and the   *)
(* Incr and Set of what was read.  Nothing is locked between the two.      *)

\* c.read(key); a failed read returns its error to the caller.
IncrRead(c, key) ==
    /\ pend[c].op = "none"
    /\ nops + Pending < MaxOps
    /\ \E r \in {read(Store, key)} :
           IF r[2] # "nil"
           THEN /\ pend' = [pend EXCEPT ![c] =
                               [key |-> key, item |-> ZeroItem, err |-> r[2], op |-> "none"]]
                /\ ret' = Ret("Incr", key, Nil, 0, r[2], FALSE)
                /\ nops' = nops + 1
           ELSE /\ pend' = [pend EXCEPT ![c] =
                               [key |-> key, item |-> r[1], err |-> "", op |-> "Incr"]]
                /\ UNCHANGED <<ret, nops>>
    /\ UNCHANGED <<files, dirs, now, interval, timers, gc, sweep>>

\* An Incr whose second step reads the entry again.
IncrWriteFresh(c) ==
    /\ pend[c].op = "Incr"
    /\ \E w \in {FileCacheIncr(Store, pend[c].key)} :
           /\ files' = w.files
           /\ dirs' = w.dirs
           /\ ret' = Ret("Incr", pend[c].key, Nil, 0, w.err, w.err = "nil")
           /\ pend' = [pend EXCEPT ![c].op = "none", ![c].err = w.err]
    /\ nops' = nops + 1
    /\ UNCHANGED <<now, interval, timers, gc, sweep>>

\* Incr(item.Val) and c.Set(key, item.Val, item.Expire), on the item read.
IncrWrite(c) ==
    /\ pend[c].op = "Incr"
    /\ \E w \in {IncrWriteBack(Store, pend[c].key, pend[c].item)} :
           /\ files' = w.files
           /\ dirs' = w.dirs
           /\ ret' = Ret("Incr", pend[c].key, Nil, 0, w.err, w.err = "nil")
           /\ pend' = [pend EXCEPT ![c].op = "none", ![c].err = w.err]
    /\ nops' = nops + 1
    /\ UNCHANGED <<now, interval, timers, gc, sweep>>

----------------------------------------------------------------------------
(* FileCache.Set as the steps of its os.WriteFile: the file is opened with *)
(* O_TRUNC, which leaves it empty on disk, and the data is written next.   *)

\* The item is built, the directories made, the file opened and truncated.
SetOpen(c, key, val, expire) ==
    /\ pend[c].op = "none"
    /\ nops + Pending < MaxOps
    /\ files' = WriteFile(files, filepath(key), NoData)
    /\ dirs' = MkdirAll(dirs, Dir(filepath(key)))
    /\ pend' = [pend EXCEPT ![c] =
                    [key |-> key,
                     item |-> Item(IF isNotNumber(val) THEN jsonMarshal(val) ELSE val,
                                   now, expire),
                     err |-> "", op |-> "Set"]]
    /\ UNCHANGED <<now, interval, timers, gc, ret, nops, sweep>>

\* The write fails (the disk is full, say): the file stays as the open left
\* it and Set returns the error of os.WriteFile.
SetWriteFail(c) ==
    /\ pend[c].op = "Set"
    /\ ret' = Ret("Set", pend[c].key, pend[c].item.Val, pend[c].item.Expire, "write", FALSE)
    /\ pend' = [pend EXCEPT ![c].op = "none", ![c].err = "write"]
    /\ nops' = nops + 1
    /\ UNCHANGED <<files, dirs, now, interval, timers, gc, sweep>>

\* The data is written and Set returns.
SetWrite(c) ==
    /\ pend[c].op = "Set"
    /\ files' = WriteFile(files, filepath(pend[c].key), EncodeGob(pend[c].item))
    /\ ret' = Ret("Set", pend[c].key, pend[c].item.Val, pend[c].item.Expire, "nil", TRUE)
    /\ pend' = [pend EXCEPT ![c].op = "none", ![c].err = "nil"]
    /\ nops' = nops + 1
    /\ UNCHANGED <<dirs, now, interval, timers, gc, sweep>>

----------------------------------------------------------------------------
(* Time. *)

Tick ==
    /\ now < MaxTime
    /\ now' = now + 1
    /\ UNCHANGED <<files, dirs, interval, timers, gc, ret, nops, sweep, pend>>

----------------------------------------------------------------------------
(* Reaper: FileCache.startGC, one step per visit of filepath.Walk.         *)
(* gc.pc is "idle" when no startGC call holds c.lock, "walk" while the     *)
(* walk has paths to visit (gc.todo: the names read from the directories   *)
(* entered so far, not yet visited), "read" between the lstat of a file    *)
(* and its os.ReadFile, "remove" between the read of an expired file and   *)
(* its os.Remove, "done" when the walk has returned.                       *)

Idle == [err |-> "nil", pc |-> "idle", todo |-> <<>>]

\* The walk has returned err (which startGC logs).
Aborted(err) == [err |-> err, pc |-> "done", todo |-> <<>>]

NoFiles == [q \in {} |-> NoData]

\* sweep outside a walk
NoSweep == [files |-> NoFiles, now |-> 0, nops |-> 0]

\* s with the due time t inserted (timers is kept in ascending order)
RECURSIVE Insert(_, _)
Insert(s, t) ==
    IF s = <<>> THEN <<t>>
    ELSE IF t <= Head(s) THEN <<t>> \o s
    ELSE <<Head(s)>> \o Insert(Tail(s), t)

\* readDirNames: the names in directory d in lexical order, as paths
RECURSIVE Sorted(_)
Sorted(names) ==
    IF names = {} THEN <<>>
    ELSE LET least == CHOOSE a \in names : \A b \in names \ {a} : StrLess(a, b)
         IN  <<least>> \o Sorted(names \ {least})

readDirNames(S, d) ==
    LET below == {q \in DOMAIN S.files \cup S.dirs : Len(q) = Len(d) + 1 /\ IsPrefix(d, q)}
        names == Sorted({q[Len(q)] : q \in below})
    IN  [i \in 1..Len(names) |-> Append(d, names[i])]

\* A startGC that walks whatever the interval is.
GCBeginAlways(record) ==
    /\ gc.pc = "idle"
    /\ timers # <<>>
    /\ Head(timers) <= now
    /\ timers' = Tail(timers)
    /\ gc' = [err |-> "nil", pc |-> "walk", todo |-> <<RootPath>>]
    /\ sweep' = IF record
                THEN [files |-> files, now |-> now, nops |-> nops]
                ELSE NoSweep
    /\ UNCHANGED <<files, dirs, now, interval, ret, nops, pend>>

\* A due startGC call takes c.lock; with interval < 1 it returns at once
\* and arms no timer, otherwise filepath.Walk(c.rootPath, ...) begins.
\* With record, the history of the sweep is kept in sweep.
GCBegin(record) ==
    /\ gc.pc = "idle"
    /\ timers # <<>>
    /\ Head(timers) <= now
    /\ timers' = Tail(timers)
    /\ gc' = IF interval < 1 THEN Idle
             ELSE [err |-> "nil", pc |-> "walk", todo |-> <<RootPath>>]
    /\ sweep' = IF record /\ interval >= 1
                THEN [files |-> files, now |-> now, nops |-> nops]
                ELSE NoSweep
    /\ UNCHANGED <<files, dirs, now, interval, ret, nops, pend>>

GCStart == GCBegin(FALSE)

GCStartRecorded == GCBegin(TRUE)

\* One visit of the walk: lstat of the next path.  A failed lstat ends the
\* walk (the walk function returns the error it is given); a directory is
\* listed and its names come next; a file is to be read.
GCVisit ==
    /\ gc.pc = "walk"
    /\ gc.todo # <<>>
    /\ LET p == Head(gc.todo)
       IN  gc' = IF ~IsExist(Store, p) THEN Aborted("Walk")
                 ELSE IF p \in dirs
                 THEN [err |-> "nil", pc |-> "walk",
                       todo |-> readDirNames(Store, p) \o Tail(gc.todo)]
                 ELSE [err |-> "nil", pc |-> "read", todo |-> gc.todo]
    /\ UNCHANGED <<files, dirs, now, interval, timers, ret, nops, sweep, pend>>

\* A walk function that passes over a file that does not decode.
GCReadSkip ==
    /\ gc.pc = "read"
    /\ LET d == DecodeGob(ReadFile(files, Head(gc.todo))[1], ZeroItem)
       IN  gc' = IF d[2] = "nil" /\ hasExpired(d[1], now)
                 THEN [err |-> "nil", pc |-> "remove", todo |-> gc.todo]
                 ELSE [err |-> "nil", pc |-> "walk", todo |-> Tail(gc.todo)]
    /\ UNCHANGED <<files, dirs, now, interval, timers, ret, nops, sweep, pend>>

\* A sweep that passes over an expired file without removing it.
GCRemoveKeep ==
    /\ gc.pc = "remove"
    /\ gc' = [err |-> "nil", pc |-> "walk", todo |-> Tail(gc.todo)]
    /\ UNCHANGED <<files, dirs, now, interval, timers, ret, nops, sweep, pend>>

\* The walk function on a file: os.ReadFile, whose error is dropped when
\* the file does not exist (the data is then empty), DecodeGob, whose error
\* ends the walk, and the expiry test.
GCRead ==
    /\ gc.pc = "read"
    /\ LET d == DecodeGob(ReadFile(files, Head(gc.todo))[1], ZeroItem)
       IN  gc' = IF d[2] # "nil" THEN Aborted(d[2])
                 ELSE IF hasExpired(d[1], now)
                 THEN [err |-> "nil", pc |-> "remove", todo |-> gc.todo]
                 ELSE [err |-> "nil", pc |-> "walk", todo |-> Tail(gc.todo)]
    /\ UNCHANGED <<files, dirs, now, interval, timers, ret, nops, sweep, pend>>

\* os.Remove of the expired file; that it is gone already is no error.
GCRemove ==
    /\ gc.pc = "remove"
    /\ LET r == Remove(Store, Head(gc.todo))
       IN  /\ files' = r.files
           /\ dirs' = r.dirs
           /\ gc' = IF r.err \in {"nil", "not exist"}
                    THEN [err |-> "nil", pc |-> "walk", todo |-> Tail(gc.todo)]
                    ELSE Aborted("remove")
    /\ UNCHANGED <<now, interval, timers, ret, nops, sweep, pend>>

\* The walk has returned: time.AfterFunc arms the next call, c.lock is released.
GCFinish ==
    /\ \/ gc.pc = "done"
       \/ gc.pc = "walk" /\ gc.todo = <<>>
    /\ timers' = Insert(timers, now + interval)
    /\ gc' = Idle
    /\ sweep' = NoSweep
    /\ UNCHANGED <<files, dirs, now, interval, ret, nops, pend>>

\* The clock of the model stops at MaxTime, the timers of the code do not:
\* a startGC call armed for a later time runs all the same, and the
\* time.Now() of its walk reads MaxTime.
GCBeginLate ==
    /\ now = MaxTime
    /\ gc.pc = "idle"
    /\ timers # <<>>
    /\ Head(timers) > now
    /\ interval >= 1
    /\ timers' = Tail(timers)
    /\ gc' = [err |-> "nil", pc |-> "walk", todo |-> <<RootPath>>]
    /\ sweep' = NoSweep
    /\ UNCHANGED <<files, dirs, now, interval, ret, nops, pend>>

Reaper == GCStart \/ GCVisit \/ GCRead \/ GCRemove \/ GCFinish

\* The Reaper whose chain of timers goes on past MaxTime.
ReaperForever == Reaper \/ GCBeginLate

ReaperRecorded == GCStartRecorded \/ GCVisit \/ GCRead \/ GCRemove \/ GCFinish
----------------------------------------------------------------------------
(* FileCache.StartAndGC(opt), with the rootPath the cache already has: it  *)
(* takes c.lock (so waits for a sweep in progress), sets c.interval,       *)
(* creates rootPath and starts a call of startGC in a goroutine of its     *)
(* own, due at once.                                                       *)
CallStartAndGC(optInterval) ==
    /\ nops + Pending < MaxOps
    /\ gc.pc = "idle"
    /\ interval' = optInterval
    /\ dirs' = MkdirAll(dirs, RootPath)
    /\ timers' = Insert(timers, now)
    /\ ret' = Ret("StartAndGC", <<>>, Nil, optInterval, "nil", TRUE)
    /\ nops' = nops + 1
    /\ UNCHANGED <<files, now, gc, sweep, pend>>


----------------------------------------------------------------------------
(* Inputs of the calls. *)

KeyK == <<"k">>
KeyU1 == <<"u", "_", "1">>
KeyU2 == <<"u", "_", "2">>
KeyV1 == <<"v", "_", "1">>
KeyX == <<"_", "x">>

\* Lifetimes given to Set: none (0 and below), one and two seconds.
TTLs == {0 - 1, 0, 1, 2}

\* Options.Interval given to StartAndGC: Reaper off, and a sweep every second.
Intervals == {0, 1}

MapA1 == MapV({<<"a", StrV(<<"1">>)>>})
MapB2 == MapV({<<"b", IntV("int", 2)>>})
MapEmpty == MapV({})

\* Scalars: of the integer types Incr and Decr know and of those they do not,
\* signed and unsigned, a float (1.5), a string and a bool.
Scalars ==
    {IntV("int", 0), IntV("int8", 0), IntV("uint", 0), IntV("uint8", 0),
     FloatV("float64", 3), StrV(<<"s">>), BoolV(TRUE)}

Values == Scalars \cup {MapA1}

----------------------------------------------------------------------------
(* The store after NewFileCache and StartAndGC(opt): rootPath exists and   *)
(* is empty, and the first startGC call is due.                            *)

Init ==
    /\ files = NoFiles
    /\ dirs = {RootPath}
    /\ now = 0
    /\ interval \in Intervals
    /\ timers = <<0>>
    /\ gc = Idle
    /\ ret = Ret("none", <<>>, Nil, 0, "nil", FALSE)
    /\ nops = 0
    /\ sweep = NoSweep
    /\ pend = <<NoCall, NoCall>>

----------------------------------------------------------------------------
(* Spec: one key, values of every kind, the counter calls, time and the    *)
(* Reaper.                                                                 *)

Next ==
    \/ \E val \in Values, expire \in TTLs \ {0 - 1} : CallSet(KeyU1, val, expire)
    \/ CallGet(KeyU1)
    \/ CallDel(KeyU1)
    \/ CallIncr(KeyU1)
    \/ CallDecr(KeyU1)
    \/ CallExists(KeyU1)
    \/ Tick
    \/ Reaper

Spec == Init /\ [][Next]_vars

----------------------------------------------------------------------------
(* SpecSweep: two keys with every lifetime, time and the Reaper.           *)

SweepKeys == {KeyK, KeyU1}

NextSweep ==
    \/ \E key \in SweepKeys, expire \in TTLs \ {2} : CallSet(key, IntV("int", 0), expire)
    \/ \E key \in SweepKeys : CallDel(key)
    \/ Tick
    \/ ReaperRecorded

SpecSweep == Init /\ [][NextSweep]_vars

----------------------------------------------------------------------------
(* SpecHash: one key and the hash emulation.                               *)

NextHash ==
    \/ \E val \in {MapEmpty, MapA1, IntV("int", 0)}, expire \in {0, 1} :
           CallSet(KeyK, val, expire)
    \/ \E newData \in {Nil, MapA1, MapB2} : CallHSet(KeyK, newData)
    \/ CallHDel(KeyK, "a")
    \/ CallHGetAll(KeyK)
    \/ CallGet(KeyK)
    \/ Tick
    \/ Reaper

SpecHash == Init /\ [][NextHash]_vars

----------------------------------------------------------------------------
(* SpecBucket: keys of several buckets and of none, Clear and Flush, with  *)
(* the Reaper off (interval 0: the first startGC call returns at once).    *)

BucketKeys == {KeyK, KeyU1, KeyU2, KeyV1, KeyX}

\* The bucket names of the keys, a hexadecimal digit, and two keys.
ClearArgs == {<<>>, <<"u">>, <<"v">>, <<"8">>, KeyK, KeyU1}

NextBucket ==
    \/ \E key \in BucketKeys : CallSet(key, IntV("int", 0), 0)
    \/ \E key \in ClearArgs : CallClear(key)
    \/ \E key \in BucketKeys : CallExists(key)
    \/ CallFlush
    \/ GCStart

InitOff == Init /\ interval = 0

SpecBucket == InitOff /\ [][NextBucket]_vars

----------------------------------------------------------------------------
(* SpecFlush: two keys, of a bucket and of none, Flush, time and the       *)
(* Reaper.                                                                 *)

FlushKeys == {KeyK, KeyU1}

NextFlush ==
    \/ \E key \in FlushKeys, expire \in {0, 1} : CallSet(key, IntV("int", 0), expire)
    \/ CallFlush
    \/ Tick
    \/ Reaper

SpecFlush == Init /\ [][NextFlush]_vars

----------------------------------------------------------------------------
(* SpecExpire: one key, values of every kind, Expire and time, with the    *)
(* Reaper off.                                                             *)

\* time.Second, in nanoseconds
Second == 1000000000

\* Durations given to Expire: none, a nanosecond, a second.
Durations == {0, 1, Second}

NextExpire ==
    \/ \E val \in Values, expire \in {0, 1} : CallSet(KeyK, val, expire)
    \/ \E d \in Durations : CallExpire(KeyK, d)
    \/ CallGet(KeyK)
    \/ CallIncr(KeyK)
    \/ Tick

SpecExpire == InitOff /\ [][NextExpire]_vars

----------------------------------------------------------------------------
(* SpecLive: one key, time and the Reaper, where the startGC call that     *)
(* StartAndGC launches (go c.startGC()) does run: nothing holds c.lock     *)
(* then, and the Go scheduler runs every runnable goroutine.               *)

NextLive ==
    \/ \E expire \in {0, 1} : CallSet(KeyK, IntV("int", 0), expire)
    \/ CallGet(KeyK)
    \/ CallDel(KeyK)
    \/ Tick
    \/ Reaper

SpecLive == Init /\ [][NextLive]_vars /\ WF_vars(GCStart)

----------------------------------------------------------------------------
(* SpecRace: two callers of Incr on one key, which is Set when it has no   *)
(* entry, and time, with the Reaper off.                                   *)

Counters == {IntV("int", 0), IntV("uint", 0), StrV(<<"s">>)}

NextRace ==
    \/ /\ ~FileCacheExists(Store, KeyK)
       /\ \E val \in Counters, expire \in {0, 1} : CallSet(KeyK, val, expire)
    \/ \E c \in Callers : IncrRead(c, KeyK)
    \/ \E c \in Callers : IncrWrite(c)
    \/ Tick

SpecRace == InitOff /\ [][NextRace]_vars

----------------------------------------------------------------------------
(* SpecRestart: a cache started with interval 1, one key, Flush, further   *)
(* StartAndGC calls, time and the Reaper.                                  *)

InitOn == Init /\ interval = 1

NextRestart ==
    \/ \E expire \in {0, 1} : CallSet(KeyK, IntV("int", 0), expire)
    \/ CallGet(KeyK)
    \/ CallDel(KeyK)
    \/ CallFlush
    \/ \E optInterval \in Intervals : CallStartAndGC(optInterval)
    \/ Tick
    \/ Reaper

SpecRestart == InitOn /\ [][NextRestart]_vars

----------------------------------------------------------------------------
(* SpecAbort: two keys with a lifetime of one second, written by one       *)
(* caller's Set in the steps of its WriteFile, Flush, time and the Reaper. *)

NextAbort ==
    \/ \E key \in SweepKeys : SetOpen(1, key, IntV("int", 0), 1)
    \/ SetWrite(1)
    \/ CallFlush
    \/ Tick
    \/ Reaper

SpecAbort == InitOn /\ [][NextAbort]_vars

----------------------------------------------------------------------------
(* SpecRecord: one key, HMSet of records whose fields share a tag or not,  *)
(* at top level and embedded, the hash calls and time, with the Reaper     *)
(* off.                                                                    *)

\* Values of a field: the empty and a non-empty string, and integers.
FieldValues == {StrV(<<>>), StrV(<<"1">>), IntV("int", 0), IntV("int", 2)}

\* struct{A, B} with both fields tagged a, struct{struct{A}; B},
\* struct{A; struct{B}}, and struct{B} with B tagged b.
Records ==
    UNION {{StructV(<<Field("a", x), Field("a", y)>>),
            StructV(<<Embedded(<<Field("a", x)>>), Field("a", y)>>),
            StructV(<<Field("a", x), Embedded(<<Field("a", y)>>)>>)} :
              x \in FieldValues, y \in FieldValues}
    \cup {StructV(<<Field("b", y)>>) : y \in FieldValues}

NextRecord ==
    \/ \E val \in {MapA1, MapEmpty}, expire \in {0, 1} : CallSet(KeyK, val, expire)
    \/ \E data \in Records \cup {Nil, PtrV(<<Field("a", IntV("int", 2))>>)} :
           CallHMSet(KeyK, data)
    \/ \E newData \in {MapA1, MapB2} : CallHSet(KeyK, newData)
    \/ \E field \in {"a", "b"} : CallHDel(KeyK, field)
    \/ CallHGetAll(KeyK)
    \/ Tick

SpecRecord == InitOff /\ [][NextRecord]_vars

----------------------------------------------------------------------------------------------------------------------------------------
(* SpecEvict: two keys with a lifetime of one second, written by one       *)
(* caller's Set in the steps of its WriteFile, whose write may fail, time  *)
(* and the Reaper, whose goroutine runs when it can and whose timers go on  *)
(* firing when the clock has reached MaxTime.                              *)

NextEvict ==
    \/ \E key \in SweepKeys : SetOpen(1, key, IntV("int", 0), 1)
    \/ SetWrite(1)
    \/ SetWriteFail(1)
    \/ Tick
    \/ ReaperForever

SpecEvict == InitOn /\ [][NextEvict]_vars /\ WF_vars(ReaperForever) /\ WF_vars(Tick)

----------------------------------------------------------------------------
(* SpecRevive: one key holding a counter or a mapping with a lifetime of   *)
(* one second, the calls that read and write back, and time, with the      *)
(* Reaper off.                                                             *)

NextRevive ==
    \/ \E val \in {IntV("int", 0), IntV("uint", 1), MapA1} : CallSet(KeyK, val, 1)
    \/ CallIncr(KeyK)
    \/ CallDecr(KeyK)
    \/ \E expire \in {1, Second} : CallExpire(KeyK, expire)
    \/ \E newData \in {Nil, MapB2} : CallHSet(KeyK, newData)
    \/ CallHDel(KeyK, "a")
    \/ Tick

SpecRevive == InitOff /\ [][NextRevive]_vars


----------------------------------------------------------------------------
(* What the properties below speak of. *)

\* The file of key is on disk.
Has(key) == filepath(key) \in DOMAIN files

\* The entry stored for key (the zero Item when there is none).
Entry(key) == read(Store, key)[1]

\* Expired, in the words of the specification.
ExpiredAt(item, t) == item.Expire > 0 /\ t - item.Created >= item.Expire

\* The store a step leaves.
StoreAfter == [files |-> files', dirs |-> dirs']

\* The step is a call op(key).
Called(op, key) == nops' = nops + 1 /\ ret'.op = op /\ ret'.key = key

AllKeys == {KeyK, KeyU1, KeyU2, KeyV1, KeyX}

IntegerFamily == SignedTypes \cup UnsignedTypes

\* The bucket of a key "b_rest"
HasBucket(key) == Contains(key, "_")
BucketOf(key) == Split(key, "_")[1]

----------------------------------------------------------------------------
(* C1: after Set(k, v, 0) with v a scalar, and no call since, Get(k)       *)
(* returns the text of v, whatever time has passed and whatever the Reaper *)
(* has done in between.                                                    *)
C1_RoundTrip ==
    (ret.op = "Set" /\ ret.n = 0 /\ ~isNotNumber(ret.val)) =>
        /\ FileCacheGet(Store, ret.key).err = "nil"
        /\ FileCacheGet(Store, ret.key).val = StrV(Sprint(ret.val))

(* C2: Get(key) on an expired entry returns an error, never a success      *)
(* (a value, or nil with no error).                                        *)
C2_ExpiredGetFails ==
    [][\A key \in AllKeys :
          (Called("Get", key) /\ Has(key) /\ ExpiredAt(Entry(key), now))
              => ret'.err # "nil"]_vars

(* C3: Get(key) on an entry with ttl >= 1 of which at least ttl seconds    *)
(* have elapsed removes the backing file: Exists(key) is false afterwards, *)
(* with the Reaper on or off.                                              *)
C3_ExpiredGetRemoves ==
    [][\A key \in AllKeys :
          (/\ Called("Get", key)
           /\ Has(key)
           /\ Entry(key).Expire >= 1
           /\ now - Entry(key).Created >= Entry(key).Expire)
              => ~FileCacheExists(StoreAfter, key)]_vars

\* A Get has found the entry expired (nil and no error), with the Reaper
\* off, and the file is gone.
C3_Witness ==
    /\ ret.op = "Get" /\ ret.val = Nil /\ ret.err = "nil"
    /\ interval = 0
    /\ now >= 1
    /\ ~FileCacheExists(Store, ret.key)

\* The walk of the sweep under way has visited everything, and no call was
\* made since the sweep began.
SweepComplete ==
    /\ gc.pc = "walk" /\ gc.todo = <<>>
    /\ sweep.nops = nops

C5_UnsignedUnderflow ==
    [][\A key \in AllKeys :
          (Has(key) /\ Entry(key).Val.type \in UnsignedTypes) =>
              /\ (Called("Incr", key) /\ Entry(key).Val.n = 0) =>
                     /\ ret'.err = "nil"
                     /\ read(StoreAfter, key)[1].Val = IntV(Entry(key).Val.type, 1)
              /\ Called("Decr", key) =>
                     /\ ret'.err = ErrLessThan0 <=> Entry(key).Val.n = 0
                     /\ ret'.err = ErrLessThan0 => files' = files
                     /\ ret'.err # ErrLessThan0 =>
                            /\ ret'.err = "nil"
                            /\ read(StoreAfter, key)[1].Val
                                   = IntV(Entry(key).Val.type, Entry(key).Val.n - 1)]_vars

(* C6: Incr(key) and Decr(key) on a stored value that is no integer (a     *)
(* string, bool, float or byte blob) fail with the type error and leave    *)
(* the entry (value, createdAt, ttl) as it is.                             *)
C6_TypeMismatch ==
    [][\A key \in AllKeys :
          (/\ Called("Incr", key) \/ Called("Decr", key)
           /\ Has(key)
           /\ Entry(key).Val.type \notin IntegerFamily)
              => /\ ret'.err = ErrNotInt
                 /\ files' = files
                 /\ dirs' = dirs]_vars

\* An Incr has failed on a stored string, which is still there.
C6_Witness ==
    /\ ret.op = "Incr" /\ ret.err = ErrNotInt
    /\ Has(ret.key)
    /\ Entry(ret.key).Val.type = "string"

(* C7: a successful Incr(key) or Decr(key) writes the entry back with the  *)
(* ttl it had and createdAt set to the time of the call, so that the entry *)
(* is not expired after the call and the countdown starts again.           *)
C7_TTLRestart ==
    [][\A key \in AllKeys :
          (/\ Called("Incr", key) \/ Called("Decr", key)
           /\ ret'.ok)
              => /\ filepath(key) \in DOMAIN files'
                 /\ read(StoreAfter, key)[1].Expire = Entry(key).Expire
                 /\ read(StoreAfter, key)[1].Created = now
                 /\ ~ExpiredAt(read(StoreAfter, key)[1], now)
                 /\ FileCacheGet(StoreAfter, key).val # Nil]_vars

\* A counter with a ttl, last incremented less than ttl seconds ago, at a
\* time when it would have expired had it been created at the start.
C7_Witness ==
    /\ ret.op = "Incr" /\ ret.ok
    /\ Has(ret.key)
    /\ Entry(ret.key).Expire > 0
    /\ now >= Entry(ret.key).Expire
    /\ now - Entry(ret.key).Created < Entry(ret.key).Expire
    /\ ~hasExpired(Entry(ret.key), now)

\* key holds no fields: there is no entry, or its mapping is empty.
NoFields(S, key) ==
    \/ ~FileCacheExists(S, key)
    \/ /\ FileCacheHGetAll(S, key).err = "nil"
       /\ FileCacheHGetAll(S, key).data = MapEmpty

(* C8: for a key holding no fields, after HSet(k, {a: "1"}) HGetAll(k)     *)
(* returns exactly {a: "1"}, and after a following HDel(k, "a") HGetAll(k) *)
(* returns the empty mapping and no error.                                 *)
C8_HashEmulation ==
    [][\A key \in AllKeys :
          (Called("HSet", key) /\ ret'.val = MapA1 /\ NoFields(Store, key))
              => /\ FileCacheHGetAll(StoreAfter, key).err = "nil"
                 /\ FileCacheHGetAll(StoreAfter, key).data = MapA1
                 /\ FileCacheHDel(StoreAfter, key, "a").err = "nil"
                 /\ FileCacheHGetAll(FileCacheHDel(StoreAfter, key, "a"), key).err = "nil"
                 /\ FileCacheHGetAll(FileCacheHDel(StoreAfter, key, "a"), key).data
                        = MapEmpty]_vars

\* The bucket names of the keys of the model.
BucketNames == {BucketOf(k) : k \in {j \in AllKeys : HasBucket(j)}}

(* C9: a key b_rest is stored under the directory of bucket b, and for     *)
(* every bucket name b, Clear(b) leaves no entry of a key prefixed b_ and  *)
(* leaves every entry of a key of another bucket as it is.                 *)
C9_BucketClear ==
    [][/\ \A k \in AllKeys :
             (HasBucket(k) /\ filepath(k) \in DOMAIN files')
                 => IsPrefix(Join(<<BucketOf(k)>>), filepath(k))
       /\ \A b \in BucketNames :
             Called("Clear", b) =>
                 \A k \in AllKeys :
                     HasBucket(k) =>
                         IF BucketOf(k) = b
                         THEN filepath(k) \notin DOMAIN files'
                         ELSE Has(k) =>
                                  /\ filepath(k) \in DOMAIN files'
                                  /\ files'[filepath(k)] = files[filepath(k)]]_vars

(* C10, as stated: Clear(key) with a key containing "_" deletes every      *)
(* entry of the key's bucket; with a key not containing it, it deletes     *)
(* exactly the entry stored for that key.                                  *)
C10_ClearAsStated ==
    [][\A key \in ClearArgs :
          Called("Clear", key) =>
              IF HasBucket(key)
              THEN \A k \in AllKeys :
                       (HasBucket(k) /\ BucketOf(k) = BucketOf(key))
                           => filepath(k) \notin DOMAIN files'
              ELSE files' = Without(files, {filepath(key)})]_vars

(* C10, amended: Clear(key) with a key containing "_" deletes exactly the  *)
(* entry stored for that key (and fails, changing nothing, when there is   *)
(* none); with a key not containing it, it deletes the subtree rootPath/   *)
(* key, so that every entry of the bucket named key is gone.               *)
C10_ClearAmended ==
    [][\A key \in ClearArgs :
          Called("Clear", key) =>
              IF HasBucket(key)
              THEN /\ files' = Without(files, {filepath(key)})
                   /\ dirs' = dirs
                   /\ ret'.ok <=> Has(key)
              ELSE /\ ret'.ok
                   /\ \A k \in AllKeys :
                          (HasBucket(k) /\ BucketOf(k) = key)
                              => filepath(k) \notin DOMAIN files']_vars

\* Clear("u_1") has removed the entry of u_1 and left that of u_2, of the
\* same bucket.
C10_Witness ==
    /\ ret.op = "Clear" /\ ret.key = KeyU1 /\ ret.ok
    /\ ~Has(KeyU1)
    /\ Has(KeyU2)

----------------------------------------------------------------------------
\* What Set stores for val, and what Get returns for it.
StoredFor(val) == IF isNotNumber(val) THEN jsonMarshal(val) ELSE val

ReadBack(val) ==
    IF isNotNumber(val) THEN jsonUnmarshal(jsonMarshal(val)) ELSE StrV(Sprint(val))

(* C11: a Set(k, v2, t2) on a key that has an entry leaves exactly one     *)
(* file for k and changes no other; and as long as no other call is made   *)
(* and the entry has not expired under t2, the entry of k carries v2, t2   *)
(* and the time of that call, and Get(k) returns v2: nothing of the entry  *)
(* overwritten shows, whatever the Reaper does.                            *)
C11_Overwrite ==
    /\ [][\A key \in AllKeys :
             (Called("Set", key) /\ Has(key))
                 => /\ DOMAIN files' = DOMAIN files
                    /\ \A p \in DOMAIN files \ {filepath(key)} : files'[p] = files[p]
                    /\ read(StoreAfter, key)[1] = Item(StoredFor(ret'.val), now, ret'.n)]_vars
    /\ [](ret.op = "Set" /\ (ret.n <= 0 \/ now < ret.n) =>
             /\ Has(ret.key)
             /\ Entry(ret.key).Val = StoredFor(ret.val)
             /\ Entry(ret.key).Expire = ret.n
             /\ FileCacheGet(Store, ret.key).err = "nil"
             /\ FileCacheGet(Store, ret.key).val = ReadBack(ret.val))

(* C12: Exists(key) returns true exactly when a file for key is on disk,   *)
(* expired or not, and changes nothing in the store.                       *)
C12_ExistsPure ==
    [][\A key \in AllKeys :
          Called("Exists", key) =>
              /\ ret'.ok <=> filepath(key) \in DOMAIN files
              /\ files' = files
              /\ dirs' = dirs]_vars

\* Exists has returned true for an entry that has expired and is still on disk.
C12_Witness ==
    /\ ret.op = "Exists" /\ ret.ok
    /\ Has(ret.key)
    /\ ExpiredAt(Entry(ret.key), now)

(* C13: after a Flush no key of any bucket has an entry: Exists(k) is      *)
(* false and Get(k) fails; and a Set on the flushed store succeeds and, as *)
(* long as no other call is made and the entry has not expired, Get(k)     *)
(* returns its value, with the Reaper running.                             *)
C13_FlushThenSet ==
    /\ [][Called("Flush", <<>>) =>
             \A k \in AllKeys :
                 /\ ~FileCacheExists(StoreAfter, k)
                 /\ FileCacheGet(StoreAfter, k).err # "nil"]_vars
    /\ [][\A key \in AllKeys :
             (Called("Set", key) /\ RootPath \notin dirs)
                 => /\ ret'.err = "nil"
                    /\ FileCacheGet(StoreAfter, key).val = ReadBack(ret'.val)]_vars
    /\ [](ret.op = "Set" /\ ~ret.root /\ (ret.n <= 0 \/ now < ret.n) =>
             /\ FileCacheExists(Store, ret.key)
             /\ FileCacheGet(Store, ret.key).err = "nil"
             /\ FileCacheGet(Store, ret.key).val = ReadBack(ret.val))

(* C14: Expire(key, d) on a key with no file returns false and changes     *)
(* nothing; on an entry that has not expired it returns true and leaves    *)
(* an entry with the lifetime given, and Get(key) returns the same value   *)
(* after the call as before it.                                            *)
C14_ExpireBoolean ==
    [][\A key \in AllKeys :
          Called("Expire", key) =>
              /\ ~FileCacheExists(Store, key) =>
                     /\ ~ret'.ok
                     /\ files' = files
                     /\ dirs' = dirs
              /\ (Has(key) /\ ~ExpiredAt(Entry(key), now)) =>
                     /\ ret'.ok
                     /\ filepath(key) \in DOMAIN files'
                     /\ read(StoreAfter, key)[1].Expire = ret'.n
                     /\ FileCacheGet(Store, key).err = "nil"
                     /\ FileCacheGet(StoreAfter, key).err = "nil"
                     /\ FileCacheGet(StoreAfter, key).val = FileCacheGet(Store, key).val]_vars

\* An Expire has returned true and the entry, stored before with another
\* lifetime, carries the one given.
C14_Witness ==
    /\ ret.op = "Expire" /\ ret.ok /\ ret.n > 0
    /\ Has(ret.key)
    /\ Entry(ret.key).Expire = ret.n
    /\ FileCacheGet(Store, ret.key).val # Nil

(* C15: with interval 0 no sweep ever runs and no startGC call is ever     *)
(* armed, and a file goes away only by a call of Get, Del, Clear or Flush; *)
(* with interval >= 1 the first sweep does begin, and does so without a    *)
(* timer having been waited for.                                           *)
C15_ReaperIffInterval ==
    /\ [][interval = 0 =>
             /\ gc' = Idle
             /\ timers' = timers \/ (timers # <<>> /\ timers' = Tail(timers))
             /\ (DOMAIN files \ DOMAIN files' # {}) =>
                    /\ nops' = nops + 1
                    /\ ret'.op \in {"Get", "Del", "Clear", "Flush"}]_vars
    /\ [][(interval >= 1 /\ gc.pc = "idle" /\ gc'.pc # "idle") =>
             /\ gc'.pc = "walk"
             /\ Head(timers) <= now]_vars
    /\ (interval >= 1 => <>(gc.pc = "walk"))
    /\ (interval >= 1 => (timers = <<0>> /\ now = 0))

\* With interval 0 the startGC call has returned, no timer is armed, and an
\* expired entry stays on disk.
C15_Witness ==
    /\ interval = 0
    /\ timers = <<>>
    /\ gc = Idle
    /\ \E p \in DOMAIN files : ExpiredAt(DecodeGob(files[p], ZeroItem)[1], now)

(* C16: the second step of an Incr stores the value its first step read,   *)
(* plus one, with the lifetime read, whatever the file holds by then: the  *)
(* entry is not read again and nothing is locked, so that two Incr calls   *)
(* that both read n both succeed and leave n + 1.                          *)
C16_LostUpdate ==
    [][\A c \in Callers :
          (/\ pend[c].op = "Incr"
           /\ pend'[c].op = "none"
           /\ pend[c].item.Val.type \in {"int", "int32", "int64", "uint", "uint32", "uint64"})
              => /\ ret'.op = "Incr" /\ ret'.ok
                 /\ read(StoreAfter, pend[c].key)[1].Val
                        = IntV(pend[c].item.Val.type, pend[c].item.Val.n + 1)
                 /\ read(StoreAfter, pend[c].key)[1].Expire = pend[c].item.Expire]_vars

\* Both callers have read the same entry, holding n, both Incr calls have
\* returned no error, and the entry holds n + 1.
C16_Witness ==
    /\ \A c \in Callers : pend[c].op = "none" /\ pend[c].err = "nil"
    /\ pend[1].item = pend[2].item
    /\ pend[1].key = pend[2].key
    /\ Has(pend[1].key)
    /\ Entry(pend[1].key).Val = IntV(pend[1].item.Val.type, pend[1].item.Val.n + 1)

(* C17: whenever a step of the sweep removes a backing file, the entry the *)
(* file holds at that moment is expired: an unexpired entry written by a   *)
(* caller is never removed by the Reaper.                                  *)
C17_ReaperOnlyExpired ==
    [][(gc.pc = "remove" /\ gc'.pc # "remove") =>
          \A p \in DOMAIN files \ DOMAIN files' :
              /\ DecodeGob(files[p], ZeroItem)[2] = "nil"
              /\ ExpiredAt(DecodeGob(files[p], ZeroItem)[1], now)]_vars

(* C18: once started with interval >= 1 the Reaper runs for the process    *)
(* lifetime, whatever is called: at every moment a sweep is in progress or *)
(* a call of startGC is pending (a timer armed, or a goroutine about to    *)
(* run), which is what a sweep can start again from.                       *)
C18_ReaperForLife == gc.pc # "idle" \/ timers # <<>>

\* The path the sweep is at does not decode (the file is empty, or gone).
Undecodable == DecodeGob(ReadFile(files, Head(gc.todo))[1], ZeroItem)[2] # "nil"

(* C19: a file that does not decode, or a path the walk cannot lstat (the  *)
(* root after a Flush), ends the sweep there: nothing is removed and what  *)
(* is left of the walk is dropped, never skipped over; the only thing the  *)
(* Reaper does next is to arm the timer of the next sweep, interval        *)
(* seconds from now.                                                       *)
C19_SweepFatal ==
    /\ [][(gc.pc = "read" /\ gc' # gc /\ Undecodable)
             => gc' = Aborted("EOF") /\ StoreAfter = Store]_vars
    /\ [][(gc.pc = "walk" /\ gc.todo # <<>> /\ gc' # gc /\ ~IsExist(Store, Head(gc.todo)))
             => gc' = Aborted("Walk") /\ StoreAfter = Store]_vars
    /\ [][(gc.pc = "done" /\ gc' # gc)
             => /\ gc' = Idle
                /\ timers' = Insert(timers, now + interval)
                /\ StoreAfter = Store]_vars
    /\ [](gc.pc = "done" => interval >= 1 /\ gc.todo = <<>>)

\* The sweep has ended at a file that is on disk and does not decode, and
\* has left the expired entry of another key on disk.
C19_Witness ==
    /\ gc.pc = "done"
    /\ gc.err = "EOF"
    /\ \E torn \in SweepKeys : \E key \in SweepKeys \ {torn} :
           /\ Has(torn)
           /\ read(Store, torn)[2] = "EOF"
           /\ Has(key)
           /\ read(Store, key)[2] = "nil"
           /\ ExpiredAt(Entry(key), now)

(* C20: a file that has vanished between the moment the sweep listed it    *)
(* and the moment the sweep stats, reads or removes it does not end the    *)
(* sweep, which goes on with the paths that are left.                      *)
C20_VanishTolerated ==
    [][(/\ gc.pc \in {"walk", "read", "remove"}
        /\ gc.todo # <<>>
        /\ gc' # gc
        /\ ~IsExist(Store, Head(gc.todo)))
           => gc'.pc = "walk" /\ gc'.todo = Tail(gc.todo)]_vars

\* The <<tag, value>> of the tagged fields of a record in declaration order,
\* the fields of an embedded group in the place of the group.
RECURSIVE Declared(_)
Declared(fields) ==
    IF fields = <<>> THEN <<>>
    ELSE (IF Head(fields).Anonymous THEN Declared(Head(fields).fields)
          ELSE IF Head(fields).tag # "" THEN <<<<Head(fields).tag, Head(fields).val>>>>
          ELSE <<>>) \o Declared(Tail(fields))

\* The fields a hash call is about.
Targeted(call) ==
    CASE call.op = "HSet" -> {e[1] : e \in call.val.m}
      [] call.op = "HDel" -> {call.val.s[1]}
      [] call.op = "HMSet" -> {Declared(call.val.s)[i][1] : i \in DOMAIN Declared(call.val.s)}
      [] OTHER -> {}

\* key holds a mapping that has not expired.
LiveHash(S, key) ==
    /\ FileCacheHGetAll(S, key).err = "nil"
    /\ FileCacheHGetAll(S, key).data # NilMap

(* C21: after a successful HMSet, HSet or HDel on a key that holds a       *)
(* mapping, the entry of the key has ttl 0, whatever it had before, and    *)
(* holds every field it had that the call is not about.                    *)
C21_HashRewrite ==
    [][\A key \in AllKeys :
          (/\ nops' = nops + 1
           /\ ret'.op \in {"HMSet", "HSet", "HDel"}
           /\ ret'.key = key
           /\ ret'.err = "nil" /\ ret'.ok
           /\ LiveHash(Store, key))
              => /\ LiveHash(StoreAfter, key)
                 /\ read(StoreAfter, key)[1].Expire = 0
                 /\ \A e \in FileCacheHGetAll(Store, key).data.m :
                        e[1] \notin Targeted(ret')
                            => e \in FileCacheHGetAll(StoreAfter, key).data.m]_vars

(* C22: sweeps do not overlap and the Reaper re-arms itself: while a sweep *)
(* is in progress no timer is armed; the sweep's end arms the one timer,   *)
(* interval seconds from that moment; and a sweep starts only from a timer *)
(* that is due, so that two starts are separated by the sweep and the      *)
(* interval.                                                               *)
C22_NoOverlap ==
    /\ [](gc.pc # "idle" => timers = <<>>)
    /\ [][(gc.pc # "idle" /\ gc'.pc = "idle") => timers' = <<now + interval>>]_vars
    /\ [][(gc.pc = "idle" /\ gc'.pc # "idle")
             => /\ timers # <<>>
                /\ Head(timers) <= now
                /\ timers' = <<>>]_vars

(* C26: however many times StartAndGC is called, the store has at most one *)
(* chain of sweeps: a sweep in progress or one pending call of startGC,    *)
(* never more.                                                             *)
C26_OneChain == Len(timers) + (IF gc.pc # "idle" THEN 1 ELSE 0) <= 1

\* The place of the last field of the declaration d that resolves to tag.
LastOf(d, tag) == CHOOSE j \in DOMAIN d : d[j][1] = tag /\ \A i \in DOMAIN d : d[i][1] = tag => i <= j

(* C23: after a successful HMSet of a record in which two fields, at top   *)
(* level or of an embedded group, resolve to the same tag, the mapping     *)
(* stored holds under that tag the value of the later of them in           *)
(* declaration order, whatever the two values are.                         *)
C23_LastWriteWins ==
    [][\A key \in AllKeys :
          (Called("HMSet", key) /\ ret'.err = "nil") =>
              \A i \in DOMAIN Declared(ret'.val.s) : \A j \in DOMAIN Declared(ret'.val.s) :
                  (i < j /\ Declared(ret'.val.s)[i][1] = Declared(ret'.val.s)[j][1]) =>
                      <<Declared(ret'.val.s)[j][1],
                        StrV(ToStr(Declared(ret'.val.s)
                                     [LastOf(Declared(ret'.val.s), Declared(ret'.val.s)[j][1])][2]))>>
                          \in FileCacheHGetAll(StoreAfter, key).data.m]_vars

\* A sweep begins while key holds an expired entry, when the caller has
\* made all the calls it makes.
SweepBeginsOn(key) ==
    /\ gc.pc = "walk" /\ gc.todo = <<RootPath>>
    /\ nops = MaxOps /\ Pending = 0
    /\ Has(key)
    /\ read(Store, key)[2] = "nil"
    /\ ExpiredAt(Entry(key), now)

\* Every file of the store decodes.
AllDecode == \A p \in DOMAIN files : DecodeGob(files[p], ZeroItem)[2] = "nil"

Live(S, key) ==
    /\ filepath(key) \in DOMAIN S.files
    /\ read(S, key)[2] = "nil"
    /\ ~ExpiredAt(read(S, key)[1], now)

(* C25: on a key whose entry has expired and whose file is still on disk,  *)
(* Incr, Decr, Expire, HSet and HDel never leave an entry that has not     *)
(* expired.                                                                *)
C25_NoRevival ==
    [][\A key \in AllKeys :
          (/\ nops' = nops + 1
           /\ ret'.op \in {"Incr", "Decr", "Expire", "HSet", "HDel"}
           /\ ret'.key = key
           /\ Has(key)
           /\ read(Store, key)[2] = "nil"
           /\ ExpiredAt(Entry(key), now))
              => ~Live(StoreAfter, key)]_vars

(* C27: Clear(name), for a name without the delimiter, removes only        *)
(* entries of keys that begin with name_: the entry of any other key, of   *)
(* another bucket or of none, stays as it is, for every name, the empty    *)
(* one and a single hexadecimal digit included.                            *)
C27_ClearFrame ==
    [][\A name \in ClearArgs :
          (Called("Clear", name) /\ ~Contains(name, "_")) =>
              \A key \in AllKeys :
                  (Has(key) /\ ~IsPrefix(name \o <<"_">>, key)) =>
                      /\ filepath(key) \in DOMAIN files'
                      /\ files'[filepath(key)] = files[filepath(key)]]_vars

(* C28: on a key holding an integer that has not expired, after an Expire  *)
(* that returned true, Incr still succeeds and stores the value plus one,  *)
(* and Decr (on a value above zero) the value less one: Expire leaves the  *)
(* kind of the value as it was.                                            *)
C28_ExpireKeepsCounter ==
    [][\A key \in AllKeys :
          (/\ Called("Expire", key) /\ ret'.ok
           /\ Has(key)
           /\ Entry(key).Val.type \in IntegerFamily
           /\ ~ExpiredAt(Entry(key), now))
              => /\ read(StoreAfter, key)[1].Val.type = Entry(key).Val.type
                 /\ FileCacheIncr(StoreAfter, key).err = "nil"
                 /\ read(FileCacheIncr(StoreAfter, key), key)[1].Val.n = Entry(key).Val.n + 1
                 /\ Entry(key).Val.n > 0 =>
                        /\ FileCacheDecr(StoreAfter, key).err = "nil"
                        /\ read(FileCacheDecr(StoreAfter, key), key)[1].Val.n
                               = Entry(key).Val.n - 1]_vars

(* C29: after an Expire(key, d) that returned true, with d a whole number  *)
(* s of seconds, the entry has a lifetime of s seconds: it has expired, for *)
(* Get and for the Reaper, as soon as s seconds (s >= 1) have passed since *)
(* the call.                                                               *)
C29_ExpireInSeconds ==
    [][\A key \in AllKeys :
          (Called("Expire", key) /\ ret'.ok /\ ret'.n % Second = 0)
              => /\ read(StoreAfter, key)[1].Expire = ret'.n \div Second
                 /\ \A t \in now..(MaxTime + 1) :
                        hasExpired(read(StoreAfter, key)[1], t)
                            <=> (ret'.n >= Second /\ t - now >= ret'.n \div Second)]_vars


====
